---- MODULE Spec2Model ----
(***************************************************************************)
(* Model of native-module/src/echo_cancel.rs: the process-wide reference   *)
(* buffer (a Mutex<VecDeque<i16>>) shared by the system-audio thread and   *)
(* the microphone thread, and the EchoCanceller wrapper that slices a      *)
(* microphone frame into sub-frames for the external cancellation engine.  *)
(*                                                                         *)
(* Every function that takes the lock is modelled as the steps the other   *)
(* thread can interleave with: the call, Mutex::lock (which parks the      *)
(* caller while the other thread holds the lock), the statements of the    *)
(* critical section, and the drop of the guard on return.                  *)
(*                                                                         *)
(* The Err arm of `if let Ok(guard) = buf.lock()` is taken only when the   *)
(* mutex is poisoned, i.e. after a thread panicked while holding the       *)
(* guard.  No statement of the three critical sections panics (drain is    *)
(* guarded by the length test), so the mutex is never poisoned and the arm *)
(* is not a step of the model.                                             *)
(***************************************************************************)
EXTENDS Integers, Sequences, FiniteSets, TLC

(***************************************************************************)
(* Sizes.  REF_BUFFER_CAPACITY is 16_000 and AEC_FRAME_SIZE is 160 in the  *)
(* source; the model runs them scaled down, as bounds, and the code never  *)
(* depends on their particular values.                                     *)
(***************************************************************************)
REF_BUFFER_CAPACITY == 4

AEC_FRAME_SIZE == 2

AEC_FILTER_LENGTH == 3200

AEC_SAMPLE_RATE == 16000

\* longest frame handed to push_reference (longer than the capacity)
MaxPushLen == 5

\* largest size handed to a direct pull_reference call
MaxPullLen == 2

\* longest microphone frame handed to EchoCanceller::process
MaxMicLen == 5

\* number of samples the system-audio thread produces in a run
MaxPushed == 6

Threads == {"sys", "mic"}

NoThread == "none"

VARIABLES
    buf,          \* the VecDeque<i16> inside AEC_REFERENCE
    holder,       \* the thread holding the Mutex, or NoThread
    call,         \* per thread: the buffer function it is in (or was last in)
    pc,           \* per thread: its position in that function
    frame,        \* per thread: the argument of push_reference
    size,         \* per thread: the argument of pull_reference
    ret,          \* per thread: the Vec returned by pull_reference
    pre,          \* per thread: the buffer as it stood when the lock was taken
    produced,     \* samples the system-audio thread has handed to push_reference
    pushed,       \* history: every sample appended to the buffer, in order
    pulled,       \* history: how far into pushed the pulls have drained
    cutoff,       \* history: Len(pushed) at the latest clear
    aec_init,     \* what Aec::new did: "not_called", "ok" or "panic"
    ec,           \* the Option<EchoCanceller> returned by EchoCanceller::new
    proc,         \* position of the microphone thread in EchoCanceller::process
    mic_frame,    \* process: its argument
    ref_samples,  \* process: the pulled reference
    chunk,        \* process: number of chunk pairs the loop has consumed
    output,       \* process: the output vector
    aec_calls     \* process: the calls of cancel_echo: (mic_chunk, ref_chunk, out_buf)

refVars == <<buf, holder, call, pc, frame, size, ret, pre, produced, pushed, pulled, cutoff>>

ecVars == <<aec_init, ec, proc, mic_frame, ref_samples, chunk, output, aec_calls>>

(***************************************************************************)
(* The gain stages: agc.rs, compressor.rs and pre_emphasis.rs.  Each       *)
(* component is a plain struct owned by one audio path; a run of the model *)
(* exercises one of them, named by focus.                                  *)
(***************************************************************************)
VARIABLES
    focus,        \* the component this run exercises
    agc,          \* AutoGainControl { current_gain, peak_envelope }
    comp,         \* SpeechCompressor { rms_buffer, rms_index, rms_sum, gain_smooth }
    norm,         \* RmsNormalizer { rms_buffer, rms_index, rms_sum, current_gain }
    gate,         \* NoiseGate { rms_buffer, rms_index, rms_sum, state, hold_counter, release_counter }
    emph,         \* PreEmphasis { prev_sample }
    dsp_in,       \* the frame handed to the latest process call
    dsp_out,      \* the same frame after the call (it is processed in place)
    dsp_calls,    \* number of process calls made so far
    comp_trace,   \* history: the compressor after each sample of the latest call
    norm_trace,   \* history: the normalizer after each sample of the latest call
    gate_trace,   \* history: the gate after each sample of the latest call
    quiet_run,    \* history: samples in a row, the first met in Open, with RMS under the close threshold
    stream_in,    \* history: every sample handed to PreEmphasis, in order
    stream_out    \* history: every sample PreEmphasis produced, in order

dspVars == <<focus, agc, comp, norm, gate, emph, dsp_in, dsp_out, dsp_calls,
             comp_trace, norm_trace, gate_trace, quiet_run, stream_in, stream_out>>

vars == <<refVars, ecVars, dspVars>>

----------------------------------------------------------------------------
(* Helpers *)

Min(a, b) == IF a < b THEN a ELSE b

\* vec![0i16; n]
Zeros(n) == [i \in 1..n |-> 0]

\* the last n elements of s
LastN(s, n) == SubSeq(s, Len(s) - n + 1, Len(s))

\* The system-audio stream is a ramp: its k-th sample has the value k, so
\* every reference sample is distinct and non-zero and any loss, duplicate
\* or reordering in the buffer shows in the values.
RefFrame(from, n) == [i \in 1..n |-> from + i]

\* The microphone frame of length n: distinct negative values.
MicFrame(n) == [i \in 1..n |-> 0 - i]

\* the position of sample v in the stream s (0 if it is not there)
Position(s, v) == IF \E i \in 1..Len(s) : s[i] = v
                  THEN CHOOSE i \in 1..Len(s) : s[i] = v
                  ELSE 0

----------------------------------------------------------------------------
(* The reference buffer: echo_cancel.rs lines 18-57 *)

\* get_ref_buffer: the buffer starts empty
get_ref_buffer == << >>

\* guard.extend(frame.iter().copied())
extend(b, f) == b \o f

\* mutant of over_capacity: the loop stops one sample early
over_capacity_off_by_one(b) == Len(b) > REF_BUFFER_CAPACITY + 1

\* the test of `while guard.len() > REF_BUFFER_CAPACITY`
over_capacity(b) == Len(b) > REF_BUFFER_CAPACITY

\* mutant of pop_front: the newest sample is dropped instead
pop_back(b) == SubSeq(b, 1, Len(b) - 1)

\* guard.pop_front()
pop_front(b) == Tail(b)

\* mutant of pull_reference: drains from the tail of the buffer
pull_reference_newest(b, n) ==
    IF Len(b) >= n
    THEN [ret |-> LastN(b, n), rest |-> SubSeq(b, 1, Len(b) - n)]
    ELSE [ret |-> Zeros(n), rest |-> b]

\* mutant of pull_reference: a short buffer is drained and padded with zeros
pull_reference_padded(b, n) ==
    IF Len(b) >= n
    THEN [ret |-> SubSeq(b, 1, n), rest |-> SubSeq(b, n + 1, Len(b))]
    ELSE [ret |-> b \o Zeros(n - Len(b)), rest |-> << >>]

\* mutant of pull_reference: a short buffer gives an empty Vec
pull_reference_empty(b, n) ==
    IF Len(b) >= n
    THEN [ret |-> SubSeq(b, 1, n), rest |-> SubSeq(b, n + 1, Len(b))]
    ELSE [ret |-> << >>, rest |-> b]

\* mutant of pull_reference: a short buffer is thrown away
pull_reference_discards_short(b, n) ==
    IF Len(b) >= n
    THEN [ret |-> SubSeq(b, 1, n), rest |-> SubSeq(b, n + 1, Len(b))]
    ELSE [ret |-> Zeros(n), rest |-> << >>]

\* the body of pull_reference under the lock: the returned Vec and what
\* stays in the buffer
pull_reference(b, n) ==
    IF Len(b) >= n
    THEN [ret |-> SubSeq(b, 1, n), rest |-> SubSeq(b, n + 1, Len(b))]
    ELSE [ret |-> Zeros(n), rest |-> b]

\* mutant of clear_reference: the newest sample survives the clear
clear_reference_keeps_last(b) == IF b = << >> THEN b ELSE LastN(b, 1)

\* guard.clear()
clear_reference(b) == << >>

\* The microphone thread moves on after a call of EchoCanceller::process:
\* the vectors of that call are gone.
process_output_dropped ==
    /\ proc' = "idle"
    /\ mic_frame' = << >>
    /\ ref_samples' = << >>
    /\ chunk' = 0
    /\ output' = << >>
    /\ aec_calls' = << >>
    /\ UNCHANGED <<aec_init, ec>>

\* a run that exercises the reference buffer and the EchoCanceller leaves
\* the gain stages alone
echo_run == focus = "echo" /\ UNCHANGED dspVars

\* mutant of acquire: the lock is handed out while the other thread holds it
acquire_not_exclusive(t) ==
    /\ holder' = t
    /\ pc' = [pc EXCEPT ![t] = "body"]
    /\ pre' = [pre EXCEPT ![t] = buf]

\* Mutex::lock when the lock is free: the caller takes it
acquire(t) ==
    /\ holder = NoThread
    /\ holder' = t
    /\ pc' = [pc EXCEPT ![t] = "body"]
    /\ pre' = [pre EXCEPT ![t] = buf]

\* buf.lock(): takes the lock, or parks the caller while the other thread
\* holds it
mutex_lock(t) ==
    /\ pc[t] = "lock"
    /\ \/ acquire(t)
       \/ /\ holder # NoThread
          /\ pc' = [pc EXCEPT ![t] = "blocked"]
          /\ UNCHANGED <<holder, pre>>
    /\ UNCHANGED <<buf, call, frame, size, ret, produced, pushed, pulled, cutoff>>
    /\ UNCHANGED ecVars
    /\ echo_run

\* a parked caller takes the lock once it has been released
mutex_wake(t) ==
    /\ pc[t] = "blocked"
    /\ acquire(t)
    /\ UNCHANGED <<buf, call, frame, size, ret, produced, pushed, pulled, cutoff>>
    /\ UNCHANGED ecVars
    /\ echo_run

\* The system-audio thread is the producer: it calls push_reference with the
\* next n samples of its stream.  The microphone thread is the consumer: it
\* pulls, directly or through EchoCanceller::process.  Either thread may
\* call clear_reference.
push_reference_call(t, n) ==
    /\ t = "sys"
    /\ pc[t] = "idle"
    /\ produced + n <= MaxPushed
    /\ call' = [call EXCEPT ![t] = "push_reference"]
    /\ pc' = [pc EXCEPT ![t] = "lock"]
    /\ frame' = [frame EXCEPT ![t] = RefFrame(produced, n)]
    /\ produced' = produced + n
    /\ UNCHANGED <<buf, holder, size, ret, pre, pushed, pulled, cutoff>>
    /\ UNCHANGED ecVars
    /\ echo_run

push_reference_extend(t) ==
    /\ call[t] = "push_reference"
    /\ pc[t] = "body"
    /\ buf' = extend(buf, frame[t])
    /\ pushed' = pushed \o frame[t]
    /\ pc' = [pc EXCEPT ![t] = "trim"]
    /\ UNCHANGED <<holder, call, frame, size, ret, pre, produced, pulled, cutoff>>
    /\ UNCHANGED ecVars
    /\ echo_run

\* one test of the while loop, and one pop_front if it passes
push_reference_trim(t) ==
    /\ call[t] = "push_reference"
    /\ pc[t] = "trim"
    /\ IF over_capacity(buf)
       THEN buf' = pop_front(buf) /\ pc' = pc
       ELSE buf' = buf /\ pc' = [pc EXCEPT ![t] = "unlock"]
    /\ UNCHANGED <<holder, call, frame, size, ret, pre, produced, pushed, pulled, cutoff>>
    /\ UNCHANGED ecVars
    /\ echo_run

\* a thread outside EchoCanceller::process calls pull_reference(n)
pull_reference_call(t, n) ==
    /\ t = "mic"
    /\ pc[t] = "idle"
    /\ proc \in {"idle", "returned"}
    /\ call' = [call EXCEPT ![t] = "pull_reference"]
    /\ pc' = [pc EXCEPT ![t] = "lock"]
    /\ size' = [size EXCEPT ![t] = n]
    /\ UNCHANGED <<buf, holder, frame, ret, pre, produced, pushed, pulled, cutoff>>
    /\ process_output_dropped
    /\ echo_run

pull_reference_body(t) ==
    /\ call[t] = "pull_reference"
    /\ pc[t] = "body"
    /\ LET r == pull_reference(buf, size[t])
       IN  /\ ret' = [ret EXCEPT ![t] = r.ret]
           /\ buf' = r.rest
           /\ pulled' = IF r.rest # buf
                        THEN Position(pushed, r.ret[Len(r.ret)])
                        ELSE pulled
    /\ pc' = [pc EXCEPT ![t] = "unlock"]
    /\ UNCHANGED <<holder, call, frame, size, pre, produced, pushed, cutoff>>
    /\ UNCHANGED ecVars
    /\ echo_run

clear_reference_call(t) ==
    /\ pc[t] = "idle"
    /\ call' = [call EXCEPT ![t] = "clear_reference"]
    /\ pc' = [pc EXCEPT ![t] = "lock"]
    /\ UNCHANGED <<buf, holder, frame, size, ret, pre, produced, pushed, pulled, cutoff>>
    /\ IF t = "mic"
       THEN proc \in {"idle", "returned"} /\ process_output_dropped
       ELSE UNCHANGED ecVars
    /\ echo_run

clear_reference_body(t) ==
    /\ call[t] = "clear_reference"
    /\ pc[t] = "body"
    /\ buf' = clear_reference(buf)
    /\ cutoff' = Len(pushed)
    /\ pc' = [pc EXCEPT ![t] = "unlock"]
    /\ UNCHANGED <<holder, call, frame, size, ret, pre, produced, pushed, pulled>>
    /\ UNCHANGED ecVars
    /\ echo_run

\* the guard is dropped and the function returns; inside process the
\* returned Vec becomes ref_samples
guard_drop(t) ==
    /\ pc[t] = "unlock"
    /\ holder' = NoThread
    /\ pc' = [pc EXCEPT ![t] = "idle"]
    /\ pre' = [pre EXCEPT ![t] = << >>]
    /\ size' = [size EXCEPT ![t] = 0]
    /\ ret' = [ret EXCEPT ![t] = << >>]
    /\ frame' = [frame EXCEPT ![t] = << >>]
    /\ IF t = "mic" /\ proc = "pull"
       THEN proc' = "loop" /\ ref_samples' = ret[t]
       ELSE UNCHANGED <<proc, ref_samples>>
    /\ UNCHANGED <<buf, call, produced, pushed, pulled, cutoff>>
    /\ UNCHANGED <<aec_init, ec, mic_frame, chunk, output, aec_calls>>
    /\ echo_run

----------------------------------------------------------------------------
(* EchoCanceller: echo_cancel.rs lines 59-115 *)

\* the AecConfig built in EchoCanceller::new
AecConfig ==
    [frame_size |-> AEC_FRAME_SIZE, filter_length |-> AEC_FILTER_LENGTH,
     sample_rate |-> AEC_SAMPLE_RATE, enable_preprocess |-> TRUE]

\* what Aec::new can do inside catch_unwind: return the engine, or panic
AecNewOutcomes == {"ok", "panic"}

\* mutant of EchoCanceller_new_result: the panic is not looked at
EchoCanceller_new_result_unchecked(outcome) ==
    [tag |-> "Some", aec |-> AecConfig, frame_size |-> AEC_FRAME_SIZE]

\* the match on the result of catch_unwind
EchoCanceller_new_result(outcome) ==
    IF outcome = "ok"
    THEN [tag |-> "Some", aec |-> AecConfig, frame_size |-> AEC_FRAME_SIZE]
    ELSE [tag |-> "None"]

\* EchoCanceller::new, called once by the microphone path
EchoCanceller_new(outcome) ==
    /\ ec.tag = "NotConstructed"
    /\ pc["mic"] = "idle"
    /\ aec_init' = outcome
    /\ ec' = EchoCanceller_new_result(outcome)
    /\ UNCHANGED refVars
    /\ UNCHANGED <<proc, mic_frame, ref_samples, chunk, output, aec_calls>>
    /\ echo_run

\* the samples the engine can write: it is opaque, so any of these
AecSamples == {0, 7}

\* cancel_echo(mic_chunk, ref_chunk, &mut out_buf) fills out_buf, a
\* vec![0i16; frame_size], with samples of the engine's choosing
cancel_echo(fs) == [1..fs -> AecSamples]

\* slice::chunks(n): the number of chunks of a slice of length len
chunks_count(len, n) == (len + n - 1) \div n

\* mutant of chunks_nth: windows that overlap, one sample apart
chunks_nth_overlapping(s, n, k) == SubSeq(s, k, Min(k + n - 1, Len(s)))

\* slice::chunks(n): the k-th chunk (k from 1) of s
chunks_nth(s, n, k) == SubSeq(s, (k - 1) * n + 1, Min(k * n, Len(s)))

\* mic_frame.chunks(n).zip(ref_samples.chunks(n)): the number of pairs
zip_count(m, r, n) == Min(chunks_count(Len(m), n), chunks_count(Len(r), n))

\* mutant of full_pair: a partial pair goes to the engine as well
full_pair_always(mic_chunk, ref_chunk, fs) == TRUE

\* the test that sends a pair of chunks to the engine
full_pair(mic_chunk, ref_chunk, fs) == Len(mic_chunk) = fs /\ Len(ref_chunk) = fs

\* mutant of pass_through: the partial chunk is silenced
pass_through_silenced(mic_chunk) == Zeros(Len(mic_chunk))

\* what a pair that is not full appends to the output
pass_through(mic_chunk) == mic_chunk

\* process is entered: it calls pull_reference(mic_frame.len())
EchoCanceller_process_call(n) ==
    /\ ec.tag = "Some"
    /\ pc["mic"] = "idle"
    /\ proc \in {"idle", "returned"}
    /\ proc' = "pull"
    /\ mic_frame' = MicFrame(n)
    /\ ref_samples' = << >>
    /\ chunk' = 0
    /\ output' = << >>
    /\ aec_calls' = << >>
    /\ call' = [call EXCEPT !["mic"] = "pull_reference"]
    /\ pc' = [pc EXCEPT !["mic"] = "lock"]
    /\ size' = [size EXCEPT !["mic"] = Len(MicFrame(n))]
    /\ UNCHANGED <<buf, holder, frame, ret, pre, produced, pushed, pulled, cutoff>>
    /\ UNCHANGED <<aec_init, ec>>
    /\ echo_run

\* one iteration of the for loop over the zipped chunks
EchoCanceller_process_chunk ==
    /\ proc = "loop"
    /\ chunk < zip_count(mic_frame, ref_samples, ec.frame_size)
    /\ LET mic_chunk == chunks_nth(mic_frame, ec.frame_size, chunk + 1)
           ref_chunk == chunks_nth(ref_samples, ec.frame_size, chunk + 1)
       IN  IF full_pair(mic_chunk, ref_chunk, ec.frame_size)
           THEN \E out_buf \in cancel_echo(ec.frame_size) :
                    /\ aec_calls' = Append(aec_calls, <<mic_chunk, ref_chunk, out_buf>>)
                    /\ output' = output \o out_buf
           ELSE /\ output' = output \o pass_through(mic_chunk)
                /\ aec_calls' = aec_calls
    /\ chunk' = chunk + 1
    /\ UNCHANGED refVars
    /\ UNCHANGED <<aec_init, ec, proc, mic_frame, ref_samples>>
    /\ echo_run

\* the loop is exhausted: process returns output
EchoCanceller_process_return ==
    /\ proc = "loop"
    /\ chunk = zip_count(mic_frame, ref_samples, ec.frame_size)
    /\ proc' = "returned"
    /\ UNCHANGED refVars
    /\ UNCHANGED <<aec_init, ec, mic_frame, ref_samples, chunk, output, aec_calls>>
    /\ echo_run

----------------------------------------------------------------------------
(* f32 arithmetic of the gain stages *)

(***************************************************************************)
(* Samples are f32.  The model keeps a sample as an integer count of       *)
(* 2^-14, and a squared sample as an integer count of 2^-28, so that the   *)
(* square of every finite sample of the model is exact in f32 as it is in  *)
(* the model.  Three values stand outside the scale: Huge is a finite      *)
(* sample whose square is above f32::MAX (any |x| >= 1.9e19), Inf is       *)
(* +infinity and NaN is not-a-number.                                      *)
(***************************************************************************)
One == 2^14

Huge == 10^9

Inf == 2 * 10^9

NaN == 2 * 10^9 + 10^8

\* RMS_WINDOW is 480, GATE_HOLD_SAMPLES 2400 and GATE_RELEASE_SAMPLES 480
\* in the source; the model runs them scaled down, as bounds.
RMS_WINDOW == 2

GATE_HOLD_SAMPLES == 1

GATE_RELEASE_SAMPLES == 2

\* longest frame handed to a process call
MaxFrameLen == 2

\* process calls made on a component whose gain moves with every call
MaxDspCalls == 3

\* process calls made on a NoiseGate
MaxGateCalls == 4

Abs(x) == IF x < 0 THEN 0 - x ELSE x

\* number of binary digits of n > 0
RECURSIVE BitLen(_)
BitLen(n) == IF n = 0 THEN 0 ELSE 1 + BitLen(n \div 2)

\* n >= 0 rounded to a multiple of q, ties to the even multiple
RoundToMultiple(n, q) ==
    LET lo == (n \div q) * q
        r == n - lo
    IN  IF 2 * r < q THEN lo
        ELSE IF 2 * r > q THEN lo + q
        ELSE IF (n \div q) % 2 = 0 THEN lo ELSE lo + q

\* The result of an f32 operation whose exact value is n: an f32 has a
\* 24-bit significand, so n is rounded to nearest, ties to even, at the
\* 24th binary digit.
f32_round(n) ==
    LET m == Abs(n)
        k == BitLen(m) - 24
        r == IF k <= 0 THEN m ELSE RoundToMultiple(m, 2^k)
    IN  IF n < 0 THEN 0 - r ELSE r

\* a + b in f32
f32_add(a, b) ==
    IF a = NaN \/ b = NaN THEN NaN
    ELSE IF a = Inf \/ b = Inf THEN Inf
    ELSE f32_round(a + b)

\* a - b in f32 (no tracker subtracts +infinity from a finite sum: once a
\* square is +infinity the sum is +infinity or NaN)
f32_sub(a, b) ==
    IF a = NaN \/ b = NaN THEN NaN
    ELSE IF a = Inf /\ b = Inf THEN NaN
    ELSE IF a = Inf THEN Inf
    ELSE IF b = Inf THEN 0 - Inf
    ELSE f32_round(a - b)

\* x * x in f32, counted in 2^-28
f32_square(x) ==
    IF x = NaN THEN NaN
    ELSE IF Abs(x) = Huge THEN Inf
    ELSE f32_round(x * x)

\* f32::clamp(-1.0, 1.0): NaN stays NaN
clamp_unit(x) ==
    IF x = NaN THEN NaN
    ELSE IF x < 0 - One THEN 0 - One
    ELSE IF x > One THEN One
    ELSE x

----------------------------------------------------------------------------
(* The sliding RMS window: compressor.rs lines 74-81, 138-142, 205-211 *)

\* vec![0.0; RMS_WINDOW], rms_index 0, rms_sum 0.0; seen is history: the
\* last RMS_WINDOW samples the tracker was fed, oldest first
rms_new ==
    [rms_buffer |-> [i \in 1..RMS_WINDOW |-> 0], rms_index |-> 0, rms_sum |-> 0,
     seen |-> << >>]

\* the four statements that slide the window over the sample x; c is the
\* component that owns the window (rms_index counts from 0, the sequence
\* rms_buffer from 1)
sliding_rms(c, x) ==
    LET sq == f32_square(x)
        i == c.rms_index + 1
        dropped == f32_sub(c.rms_sum, c.rms_buffer[i])
    IN  [c EXCEPT !.rms_buffer[i] = sq,
                  !.rms_sum = f32_add(dropped, sq),
                  !.rms_index = (c.rms_index + 1) % RMS_WINDOW,
                  !.seen = IF Len(c.seen) < RMS_WINDOW
                           THEN Append(c.seen, x)
                           ELSE Append(Tail(c.seen), x)]

\* (rms_sum / RMS_WINDOW as f32).sqrt() is NaN when the sum is NaN or
\* below zero
rms_is_nan(sum) == sum = NaN \/ sum < 0

\* rms >= thresh and rms > thresh, for a threshold given as its mean
\* square in 2^-28 rounded up.  No threshold of the source is a whole
\* count of 2^-14, so the two comparisons agree on every sum of the model;
\* both are false when rms is NaN.
rms_at_least(sum, thresh) ==
    /\ ~rms_is_nan(sum)
    /\ sum = Inf \/ sum >= RMS_WINDOW * thresh

\* rms < thresh and rms <= thresh, false when rms is NaN
rms_below(sum, thresh) ==
    /\ ~rms_is_nan(sum)
    /\ sum # Inf
    /\ sum < RMS_WINDOW * thresh

----------------------------------------------------------------------------
(* NoiseGate: compressor.rs lines 158-256 *)

\* 0.005: (0.005 * 2^14)^2 = 6710.9
GATE_OPEN_THRESH == 6711

\* 0.00316: (0.00316 * 2^14)^2 = 2680.5
GATE_CLOSE_THRESH == 2681

GateState == {"Closed", "Open", "Hold", "Release"}

NoiseGate_new ==
    [rms_buffer |-> rms_new.rms_buffer, rms_index |-> rms_new.rms_index,
     rms_sum |-> rms_new.rms_sum, seen |-> rms_new.seen,
     state |-> "Open", hold_counter |-> 0, release_counter |-> 0]

\* *sample *= release_counter as f32 / GATE_RELEASE_SAMPLES as f32
fade(x, release_counter) ==
    IF x = NaN THEN NaN
    ELSE IF x < 0 THEN 0 - (((0 - x) * release_counter) \div GATE_RELEASE_SAMPLES)
    ELSE (x * release_counter) \div GATE_RELEASE_SAMPLES

\* mutant of gate_closed: the closed gate lets the sample through
gate_closed_leaks(g, x) ==
    IF rms_at_least(g.rms_sum, GATE_OPEN_THRESH)
    THEN [gate |-> [g EXCEPT !.state = "Open"], y |-> x]
    ELSE [gate |-> g, y |-> x]

\* the arm GateState::Closed; g already holds the RMS of this sample
gate_closed(g, x) ==
    IF rms_at_least(g.rms_sum, GATE_OPEN_THRESH)
    THEN [gate |-> [g EXCEPT !.state = "Open"], y |-> x]
    ELSE [gate |-> g, y |-> 0]

\* mutant of gate_open: a quiet sample starts the fade at once
gate_open_skips_hold(g, x) ==
    IF rms_below(g.rms_sum, GATE_CLOSE_THRESH)
    THEN [gate |-> [g EXCEPT !.state = "Release",
                             !.release_counter = GATE_RELEASE_SAMPLES],
          y |-> x]
    ELSE [gate |-> g, y |-> x]

\* mutant of gate_open: one threshold, the gate leaves Open under the open
\* threshold
gate_open_single_threshold(g, x) ==
    IF rms_below(g.rms_sum, GATE_OPEN_THRESH)
    THEN [gate |-> [g EXCEPT !.state = "Hold",
                             !.hold_counter = GATE_HOLD_SAMPLES],
          y |-> x]
    ELSE [gate |-> g, y |-> x]

\* the arm GateState::Open
gate_open(g, x) ==
    IF rms_below(g.rms_sum, GATE_CLOSE_THRESH)
    THEN [gate |-> [g EXCEPT !.state = "Hold",
                             !.hold_counter = GATE_HOLD_SAMPLES],
          y |-> x]
    ELSE [gate |-> g, y |-> x]

\* mutant of gate_hold: the counter is looked at before the level
gate_hold_counts_first(g, x) ==
    IF g.hold_counter > 0
    THEN [gate |-> [g EXCEPT !.hold_counter = g.hold_counter - 1], y |-> x]
    ELSE IF rms_at_least(g.rms_sum, GATE_OPEN_THRESH)
    THEN [gate |-> [g EXCEPT !.state = "Open"], y |-> x]
    ELSE [gate |-> [g EXCEPT !.state = "Release",
                             !.release_counter = GATE_RELEASE_SAMPLES],
          y |-> x]

\* mutant of gate_hold: the hold runs out one sample early
gate_hold_expires_early(g, x) ==
    IF rms_at_least(g.rms_sum, GATE_OPEN_THRESH)
    THEN [gate |-> [g EXCEPT !.state = "Open"], y |-> x]
    ELSE IF g.hold_counter > 1
    THEN [gate |-> [g EXCEPT !.hold_counter = g.hold_counter - 1], y |-> x]
    ELSE [gate |-> [g EXCEPT !.state = "Release",
                             !.release_counter = GATE_RELEASE_SAMPLES],
          y |-> x]

\* the arm GateState::Hold
gate_hold(g, x) ==
    IF rms_at_least(g.rms_sum, GATE_OPEN_THRESH)
    THEN [gate |-> [g EXCEPT !.state = "Open"], y |-> x]
    ELSE IF g.hold_counter > 0
    THEN [gate |-> [g EXCEPT !.hold_counter = g.hold_counter - 1], y |-> x]
    ELSE [gate |-> [g EXCEPT !.state = "Release",
                             !.release_counter = GATE_RELEASE_SAMPLES],
          y |-> x]

\* mutant of gate_release: the counter is taken down before the fade is
\* computed
gate_release_fades_late(g, x) ==
    IF rms_at_least(g.rms_sum, GATE_OPEN_THRESH)
    THEN [gate |-> [g EXCEPT !.state = "Open"], y |-> x]
    ELSE IF g.release_counter > 0
    THEN [gate |-> [g EXCEPT !.release_counter = g.release_counter - 1],
          y |-> fade(x, g.release_counter - 1)]
    ELSE [gate |-> [g EXCEPT !.state = "Closed"], y |-> 0]

\* the arm GateState::Release
gate_release(g, x) ==
    IF rms_at_least(g.rms_sum, GATE_OPEN_THRESH)
    THEN [gate |-> [g EXCEPT !.state = "Open"], y |-> x]
    ELSE IF g.release_counter > 0
    THEN [gate |-> [g EXCEPT !.release_counter = g.release_counter - 1],
          y |-> fade(x, g.release_counter)]
    ELSE [gate |-> [g EXCEPT !.state = "Closed"], y |-> 0]

\* the body of the loop of NoiseGate::process for one sample
gate_sample(g0, x) ==
    LET g == sliding_rms(g0, x)
    IN  CASE g.state = "Closed" -> gate_closed(g, x)
          [] g.state = "Open" -> gate_open(g, x)
          [] g.state = "Hold" -> gate_hold(g, x)
          [] g.state = "Release" -> gate_release(g, x)

\* history: the length of the run of quiet samples after one more sample
QuietCap == GATE_HOLD_SAMPLES + GATE_RELEASE_SAMPLES + 4

quiet_next(run, before, after) ==
    IF rms_below(after.rms_sum, GATE_CLOSE_THRESH) /\ (run > 0 \/ before.state = "Open")
    THEN Min(run + 1, QuietCap)
    ELSE 0

\* the loop of NoiseGate::process from sample k of the frame on; acc holds
\* the gate, the samples written back so far and the history
RECURSIVE gate_loop(_, _, _)
gate_loop(acc, samples, k) ==
    IF k > Len(samples) THEN acc
    ELSE LET r == gate_sample(acc.gate, samples[k])
             run == quiet_next(acc.run, acc.gate, r.gate)
         IN  gate_loop([gate |-> r.gate,
                        run |-> run,
                        out |-> Append(acc.out, r.y),
                        trace |-> Append(acc.trace,
                                         [pre |-> acc.gate, post |-> r.gate,
                                          x |-> samples[k], y |-> r.y,
                                          run |-> run])],
                       samples, k + 1)

gate_process(g, run, samples) ==
    gate_loop([gate |-> g, run |-> run, out |-> << >>, trace |-> << >>], samples, 1)

\* the frames of at most n samples that stay at one level of S
LevelFrames(S, n) == {[i \in 1..k |-> v] : k \in 0..n, v \in S}

\* samples fed to a NoiseGate: silence, a level far under the close
\* threshold (2^-14), a level between the thresholds (2^-8 = 0.0039) and
\* a loud one (0.5)
GateSamples == {0, 1, 2^6, 2^13}

\* NoiseGate::process(samples)
NoiseGate_process(samples) ==
    /\ focus = "gate"
    /\ dsp_calls < MaxGateCalls
    /\ LET r == gate_process(gate, quiet_run, samples)
       IN  /\ gate' = r.gate
           /\ quiet_run' = r.run
           /\ gate_trace' = r.trace
           /\ dsp_out' = r.out
    /\ dsp_in' = samples
    /\ dsp_calls' = dsp_calls + 1
    /\ UNCHANGED <<focus, agc, comp, norm, emph, comp_trace, norm_trace, stream_in, stream_out>>
    /\ UNCHANGED <<refVars, ecVars>>

----------------------------------------------------------------------------
(* PreEmphasis: pre_emphasis.rs lines 11-34 *)

PreEmphasis_new == [prev_sample |-> 0]

\* PRE_EMPHASIS_COEFF * prev_sample, with the coefficient 0.65 as 65/100;
\* the samples of PreSamples are multiples of 20, for which the product is
\* a whole count of 2^-14
pre_emphasis_coeff_times(prev_sample) == (65 * prev_sample) \div 100

\* mutant of pre_emphasis_sample: the filtered sample is kept as the
\* previous one
pre_emphasis_sample_keeps_output(e, x) ==
    LET y == x - pre_emphasis_coeff_times(e.prev_sample)
    IN  [emph |-> [prev_sample |-> y], y |-> y]

\* the body of the loop of PreEmphasis::process for one sample
pre_emphasis_sample(e, x) ==
    LET input == x
    IN  [emph |-> [prev_sample |-> input],
         y |-> input - pre_emphasis_coeff_times(e.prev_sample)]

\* the loop of PreEmphasis::process from sample k of the frame on
RECURSIVE pre_emphasis_loop(_, _, _)
pre_emphasis_loop(acc, samples, k) ==
    IF k > Len(samples) THEN acc
    ELSE LET r == pre_emphasis_sample(acc.emph, samples[k])
         IN  pre_emphasis_loop([emph |-> r.emph, out |-> Append(acc.out, r.y)],
                               samples, k + 1)

\* samples fed to PreEmphasis: -0.5, 0, 0.25 and 1.0 to the nearest
\* multiple of 20 * 2^-14
PreSamples == {0 - 8200, 0, 4100, 16380}

\* PreEmphasis::process(samples)
PreEmphasis_process(samples) ==
    /\ focus = "emph"
    /\ dsp_calls < MaxDspCalls
    /\ LET r == pre_emphasis_loop([emph |-> emph, out |-> << >>], samples, 1)
       IN  /\ emph' = r.emph
           /\ dsp_out' = r.out
           /\ stream_out' = stream_out \o r.out
    /\ stream_in' = stream_in \o samples
    /\ dsp_in' = samples
    /\ dsp_calls' = dsp_calls + 1
    /\ UNCHANGED <<focus, agc, comp, norm, gate, comp_trace, norm_trace, gate_trace, quiet_run>>
    /\ UNCHANGED <<refVars, ecVars>>

----------------------------------------------------------------------------
(* AutoGainControl: agc.rs lines 14-95 *)

(***************************************************************************)
(* A gain is kept as an integer count of 10^-6, and the peak envelope, an  *)
(* amplitude, as a count of 2^-14 / 1000, so that the per-sample decay of  *)
(* the envelope and the per-frame release of the gain, both small, move    *)
(* the integers.  A product or quotient is cut to the next lower count.    *)
(***************************************************************************)
GainOne == 10^6

EnvScale == 10^3

\* a * 10^digits / b cut to an integer, for 0 <= a and 0 < b, by long
\* division (no intermediate value is above 10 * b)
RECURSIVE scaled_div(_, _, _)
scaled_div(a, b, digits) ==
    IF digits = 0 THEN a \div b
    ELSE (a \div b) * 10^digits + scaled_div((a % b) * 10, b, digits - 1)

\* TARGET_PEAK, 0.25, as an envelope
TARGET_PEAK == (One \div 4) * EnvScale

\* MAX_GAIN, 60.0
MAX_GAIN == 60 * GainOne

\* MIN_GAIN, 1.0
MIN_GAIN == GainOne

\* SILENCE_FLOOR, 0.0001, as an envelope: 1638.4, and an envelope is above
\* 1638.4 exactly when it is above 1638
SILENCE_FLOOR == (One * EnvScale) \div 10^4

AutoGainControl_new == [current_gain |-> MAX_GAIN, peak_envelope |-> 0]

\* s.abs() as an envelope; the envelope of a Huge sample stays Huge
agc_abs(s) == IF Abs(s) = Huge THEN Huge ELSE Abs(s) * EnvScale

\* peak_envelope *= ENVELOPE_RELEASE, with 0.99993 as 1 - 7/100000; a Huge
\* envelope is still Huge after any number of samples a run can hold
envelope_release(env) == IF env = Huge THEN Huge ELSE env - (7 * env) \div 10^5

\* step 1 for one sample: instant attack, slow release of the envelope
agc_envelope(env, s) ==
    IF agc_abs(s) > env THEN agc_abs(s) ELSE envelope_release(env)

RECURSIVE agc_envelope_loop(_, _, _)
agc_envelope_loop(env, samples, k) ==
    IF k > Len(samples) THEN env
    ELSE agc_envelope_loop(agc_envelope(env, samples[k]), samples, k + 1)

\* mutant of agc_clamp_gain: the gain is not clamped
agc_clamp_gain_off(g) == g

\* f32::clamp(MIN_GAIN, MAX_GAIN)
agc_clamp_gain(g) ==
    IF g < MIN_GAIN THEN MIN_GAIN ELSE IF g > MAX_GAIN THEN MAX_GAIN ELSE g

\* TARGET_PEAK / peak_envelope as a gain, for an envelope above the floor;
\* a quotient above 1000 is kept as 1000
agc_target_over(env) ==
    IF env = Huge THEN 0
    ELSE IF env <= TARGET_PEAK \div 1000 THEN 1000 * GainOne
    ELSE scaled_div(TARGET_PEAK, env, 6)

\* mutant of agc_gain: the gain is smoothed on the way down as well
agc_gain_slow_attack(current_gain, env) ==
    IF env > SILENCE_FLOOR
    THEN LET desired_gain == agc_clamp_gain(agc_target_over(env))
         IN  IF desired_gain < current_gain
             THEN agc_clamp_gain(current_gain - (2 * (current_gain - desired_gain)) \div 100)
             ELSE agc_clamp_gain(current_gain + (2 * (desired_gain - current_gain)) \div 100)
    ELSE current_gain

\* step 2: the gain after a frame that left the envelope at env
agc_gain(current_gain, env) ==
    IF env > SILENCE_FLOOR
    THEN LET desired_gain == agc_clamp_gain(agc_target_over(env))
         IN  IF desired_gain < current_gain
             THEN desired_gain
             ELSE agc_clamp_gain(current_gain + (2 * (desired_gain - current_gain)) \div 100)
    ELSE current_gain

\* sample * gain in f32: a Huge sample times a gain of 1.0 or more is far
\* above 1.0; the gain goes in as a count of 10^-3
f32_times_gain(s, gain) ==
    IF s = NaN \/ gain = NaN THEN NaN
    ELSE IF s = Huge THEN Huge
    ELSE IF s = 0 - Huge THEN 0 - Huge
    ELSE IF s < 0 THEN 0 - (((0 - s) * (gain \div 1000)) \div 1000)
    ELSE (s * (gain \div 1000)) \div 1000

\* step 3: apply gain with hard clip
agc_apply(samples, gain) ==
    [k \in 1..Len(samples) |-> clamp_unit(f32_times_gain(samples[k], gain))]

\* mutant of agc_is_empty: no early return
agc_is_empty_never(samples) == FALSE

\* samples.is_empty()
agc_is_empty(samples) == Len(samples) = 0

\* the whole of AutoGainControl::process on the component a
agc_process(a, samples) ==
    IF agc_is_empty(samples) THEN [agc |-> a, out |-> samples]
    ELSE LET env == agc_envelope_loop(a.peak_envelope, samples, 1)
             gain == agc_gain(a.current_gain, env)
         IN  [agc |-> [current_gain |-> gain, peak_envelope |-> env],
              out |-> agc_apply(samples, gain)]

\* samples fed to the AGC: silence, a level under the silence floor
\* (2^-14), 2^-6 and 2^-4 (their target gains are 16 and 4), -2.0, and Huge
AgcSamples == {0, 1, 2^8, 2^10, 0 - 2^15, Huge}

\* AutoGainControl::process(samples)
AutoGainControl_process(samples) ==
    /\ focus = "agc"
    /\ dsp_calls < MaxDspCalls
    /\ LET r == agc_process(agc, samples)
       IN  /\ agc' = r.agc
           /\ dsp_out' = r.out
    /\ dsp_in' = samples
    /\ dsp_calls' = dsp_calls + 1
    /\ UNCHANGED <<focus, comp, norm, gate, emph, comp_trace, norm_trace, gate_trace,
                   quiet_run, stream_in, stream_out>>
    /\ UNCHANGED <<refVars, ecVars>>

----------------------------------------------------------------------------
(* RmsNormalizer: compressor.rs lines 100-157 *)

\* the largest r in lo..hi with r * r <= n, for lo * lo <= n
RECURSIVE isqrt_between(_, _, _)
isqrt_between(n, lo, hi) ==
    IF lo = hi THEN lo
    ELSE LET mid == (lo + hi + 1) \div 2
         IN  IF mid * mid <= n THEN isqrt_between(n, mid, hi)
             ELSE isqrt_between(n, lo, mid - 1)

\* (rms_sum / RMS_WINDOW as f32).sqrt() as an amplitude, cut to a whole
\* count of 2^-14
rms_of(sum) ==
    IF rms_is_nan(sum) THEN NaN
    ELSE IF sum = Inf THEN Inf
    ELSE isqrt_between(sum \div RMS_WINDOW, 0, 2^15)

\* 0.001: (0.001 * 2^14)^2 = 268.4
NORM_SILENCE_FLOOR == 269

\* NORM_MAX_GAIN, 40.0
NORM_MAX_GAIN == 40 * GainOne

\* NORM_MIN_GAIN, 0.5
NORM_MIN_GAIN == GainOne \div 2

RmsNormalizer_new ==
    [rms_buffer |-> rms_new.rms_buffer, rms_index |-> rms_new.rms_index,
     rms_sum |-> rms_new.rms_sum, seen |-> rms_new.seen,
     current_gain |-> GainOne]

\* f32::clamp(NORM_MIN_GAIN, NORM_MAX_GAIN)
norm_clamp_gain(g) ==
    IF g = NaN THEN NaN
    ELSE IF g < NORM_MIN_GAIN THEN NORM_MIN_GAIN
    ELSE IF g > NORM_MAX_GAIN THEN NORM_MAX_GAIN
    ELSE g

\* TARGET_RMS / rms as a gain, with 0.15 as 3/20; a quotient above 1000
\* (and the +infinity of a zero rms) is kept as 1000
norm_target_over(rms) ==
    IF rms = NaN THEN NaN
    ELSE IF rms = Inf THEN 0
    ELSE IF 20 * rms * 1000 <= 3 * One THEN 1000 * GainOne
    ELSE scaled_div(3 * One, 20 * rms, 6)

\* mutant of norm_above_floor: the gain adapts at every level
norm_above_floor_always(sum) == TRUE

\* rms > NORM_SILENCE_FLOOR
norm_above_floor(sum) == rms_at_least(sum, NORM_SILENCE_FLOOR)

\* current_gain after one sample whose window sums to sum, with the
\* coefficient NORM_SMOOTH_COEFF, 0.0001, as 1/10000
norm_gain(current_gain, sum) ==
    IF norm_above_floor(sum)
    THEN LET desired == norm_clamp_gain(norm_target_over(rms_of(sum)))
         IN  IF desired = NaN THEN NaN
             ELSE norm_clamp_gain(current_gain + (desired - current_gain) \div 10^4)
    ELSE current_gain

\* the body of the loop of RmsNormalizer::process for one sample
norm_sample(n0, x) ==
    LET n == sliding_rms(n0, x)
        gain == norm_gain(n.current_gain, n.rms_sum)
    IN  [norm |-> [n EXCEPT !.current_gain = gain],
         y |-> clamp_unit(f32_times_gain(x, gain))]

RECURSIVE norm_loop(_, _, _)
norm_loop(acc, samples, k) ==
    IF k > Len(samples) THEN acc
    ELSE LET r == norm_sample(acc.norm, samples[k])
         IN  norm_loop([norm |-> r.norm,
                        out |-> Append(acc.out, r.y),
                        trace |-> Append(acc.trace,
                                         [pre |-> acc.norm, post |-> r.norm,
                                          x |-> samples[k], y |-> r.y])],
                       samples, k + 1)

norm_process(n, samples) ==
    norm_loop([norm |-> n, out |-> << >>, trace |-> << >>], samples, 1)

\* samples fed to an RmsNormalizer: silence, a level under the silence
\* floor (2^-14), 2^-8, 0.5 and -1.0
NormSamples == {0, 1, 2^6, 2^13, 0 - 2^14}

\* RmsNormalizer::process(samples)
RmsNormalizer_process(samples) ==
    /\ focus = "norm"
    /\ dsp_calls < MaxDspCalls
    /\ LET r == norm_process(norm, samples)
       IN  /\ norm' = r.norm
           /\ norm_trace' = r.trace
           /\ dsp_out' = r.out
    /\ dsp_in' = samples
    /\ dsp_calls' = dsp_calls + 1
    /\ UNCHANGED <<focus, agc, comp, gate, emph, comp_trace, gate_trace,
                   quiet_run, stream_in, stream_out>>
    /\ UNCHANGED <<refVars, ecVars>>

----------------------------------------------------------------------------
(* SpeechCompressor: compressor.rs lines 14-99 *)

(***************************************************************************)
(* Levels are kept in thousandths of a decibel.  log10 and powf belong to  *)
(* the platform's libm; the model takes the base-2 logarithm of an integer *)
(* from its number of binary digits and a straight line across each        *)
(* octave, and 2^-f for 0 <= f < 1 from the straight line 1 - f/2, and     *)
(* one octave as 6.0206 dB.  Both are exact at the powers of two, so       *)
(* 10^(0/20) is exactly 1.0, and both rise with their argument.            *)
(***************************************************************************)

\* 1000 * log2(n) for n > 0
log2_milli(n) ==
    LET b == BitLen(n)
        m == IF b > 21 THEN n \div 2^(b - 21) ELSE n * 2^(21 - b)
    IN  1000 * (b - 1) + (1000 * (m - 2^20)) \div 2^20

\* 10 * log10(n) in thousandths of a dB: 3.0103 dB for each doubling
ten_log10(n) == (30103 * log2_milli(n)) \div 10^4

\* 20.0 * rms.log10() for rms = (rms_sum / RMS_WINDOW).sqrt().max(1e-10):
\* f32::max drops a NaN, so a NaN rms counts as 1e-10, -200 dB
comp_input_db(sum) ==
    IF rms_is_nan(sum) \/ sum = 0 THEN 0 - 200000
    ELSE IF sum = Inf THEN Inf
    ELSE ten_log10(sum) - ten_log10(RMS_WINDOW * One * One)

\* 20.0 * COMP_THRESHOLD.log10(): the threshold 0.1 is -20 dB
threshold_db == 0 - 20000

\* KNEE_DB / 2.0
half_knee == 3000

\* compute_gain_db; above the knee an infinite level gives
\* (threshold_db + inf) - inf, which is NaN
compute_gain_db(input_db) ==
    IF input_db = Inf THEN NaN
    ELSE IF input_db < threshold_db - half_knee THEN 0
    ELSE IF input_db > threshold_db + half_knee
    THEN (threshold_db + (input_db - threshold_db) \div 4) - input_db
    ELSE LET x == input_db - threshold_db + half_knee
         IN  0 - ((3 * x * x) \div (4 * 2 * (2 * half_knee)))

\* 10.0_f32.powf(gain_db / 20.0) as a gain, for gain_db <= 0
comp_desired_gain(gain_db) ==
    IF gain_db = NaN THEN NaN
    ELSE LET t == (0 - gain_db) * 10
             octaves == t \div 60206
             f_milli == ((t % 60206) * 1000) \div 60206
         IN  (GainOne - (GainOne \div 2000) * f_milli) \div 2^octaves

SpeechCompressor_new ==
    [rms_buffer |-> rms_new.rms_buffer, rms_index |-> rms_new.rms_index,
     rms_sum |-> rms_new.rms_sum, seen |-> rms_new.seen,
     gain_smooth |-> GainOne]

\* gain_smooth after one sample, with ATTACK_COEFF, 0.02, as 2/100 and
\* RELEASE_COEFF, 0.00042, as 42/100000; a comparison with NaN is false
comp_gain_smooth(gain_smooth, desired_gain) ==
    IF desired_gain = NaN \/ gain_smooth = NaN THEN NaN
    ELSE IF desired_gain < gain_smooth
    THEN gain_smooth + (2 * (desired_gain - gain_smooth)) \div 100
    ELSE gain_smooth + (42 * (desired_gain - gain_smooth)) \div 10^5

\* the body of the loop of SpeechCompressor::process for one sample
comp_sample(c0, x) ==
    LET c == sliding_rms(c0, x)
        gain_db == compute_gain_db(comp_input_db(c.rms_sum))
        gain == comp_gain_smooth(c.gain_smooth, comp_desired_gain(gain_db))
    IN  [comp |-> [c EXCEPT !.gain_smooth = gain],
         y |-> f32_times_gain(x, gain)]

RECURSIVE comp_loop(_, _, _)
comp_loop(acc, samples, k) ==
    IF k > Len(samples) THEN acc
    ELSE LET r == comp_sample(acc.comp, samples[k])
         IN  comp_loop([comp |-> r.comp,
                        out |-> Append(acc.out, r.y),
                        trace |-> Append(acc.trace,
                                         [pre |-> acc.comp, post |-> r.comp,
                                          x |-> samples[k], y |-> r.y])],
                       samples, k + 1)

comp_process(c, samples) ==
    comp_loop([comp |-> c, out |-> << >>, trace |-> << >>], samples, 1)

\* samples fed to a SpeechCompressor and to the chain: silence, 2^-8, 0.5,
\* -1.0, and Huge
CompSamples == {0, 2^6, 2^13, 0 - 2^14, Huge}

\* SpeechCompressor::process(samples)
SpeechCompressor_process(samples) ==
    /\ focus = "comp"
    /\ dsp_calls < MaxDspCalls
    /\ LET r == comp_process(comp, samples)
       IN  /\ comp' = r.comp
           /\ comp_trace' = r.trace
           /\ dsp_out' = r.out
    /\ dsp_in' = samples
    /\ dsp_calls' = dsp_calls + 1
    /\ UNCHANGED <<focus, agc, norm, gate, emph, norm_trace, gate_trace,
                   quiet_run, stream_in, stream_out>>
    /\ UNCHANGED <<refVars, ecVars>>

----------------------------------------------------------------------------
(* SystemAudioProcessor: compressor.rs lines 258-284 *)

\* SystemAudioProcessor::process(samples): compressor.process(samples);
\* normalizer.process(samples); gate.process(samples), each over the whole
\* frame, in place
SystemAudioProcessor_process(samples) ==
    /\ focus = "chain"
    /\ dsp_calls < MaxDspCalls
    /\ \E cr \in {comp_process(comp, samples)} :
       \E nr \in {norm_process(norm, cr.out)} :
       \E gr \in {gate_process(gate, quiet_run, nr.out)} :
           /\ comp' = cr.comp
           /\ norm' = nr.norm
           /\ gate' = gr.gate
           /\ quiet_run' = gr.run
           /\ comp_trace' = cr.trace
           /\ norm_trace' = nr.trace
           /\ gate_trace' = gr.trace
           /\ dsp_out' = gr.out
    /\ dsp_in' = samples
    /\ dsp_calls' = dsp_calls + 1
    /\ UNCHANGED <<focus, agc, emph, stream_in, stream_out>>
    /\ UNCHANGED <<refVars, ecVars>>

----------------------------------------------------------------------------
(* Specification *)

\* the reference buffer and the EchoCanceller before any call
EchoInit ==
    /\ buf = get_ref_buffer
    /\ holder = NoThread
    /\ call = [t \in Threads |-> "none"]
    /\ pc = [t \in Threads |-> "idle"]
    /\ frame = [t \in Threads |-> << >>]
    /\ size = [t \in Threads |-> 0]
    /\ ret = [t \in Threads |-> << >>]
    /\ pre = [t \in Threads |-> << >>]
    /\ produced = 0
    /\ pushed = << >>
    /\ pulled = 0
    /\ cutoff = 0
    /\ aec_init = "not_called"
    /\ ec = [tag |-> "NotConstructed"]
    /\ proc = "idle"
    /\ mic_frame = << >>
    /\ ref_samples = << >>
    /\ chunk = 0
    /\ output = << >>
    /\ aec_calls = << >>

\* the gain stages as their constructors leave them
DspInit ==
    /\ agc = AutoGainControl_new
    /\ comp = SpeechCompressor_new
    /\ norm = RmsNormalizer_new
    /\ gate = NoiseGate_new
    /\ emph = PreEmphasis_new
    /\ dsp_in = << >>
    /\ dsp_out = << >>
    /\ dsp_calls = 0
    /\ comp_trace = << >>
    /\ norm_trace = << >>
    /\ gate_trace = << >>
    /\ quiet_run = 0
    /\ stream_in = << >>
    /\ stream_out = << >>

Init ==
    /\ EchoInit
    /\ DspInit
    /\ focus = "echo"

Next ==
    \/ \E t \in Threads : mutex_lock(t)
    \/ \E t \in Threads : mutex_wake(t)
    \/ \E t \in Threads, n \in 0..MaxPushLen : push_reference_call(t, n)
    \/ \E t \in Threads : push_reference_extend(t)
    \/ \E t \in Threads : push_reference_trim(t)
    \/ \E t \in Threads, n \in 0..MaxPullLen : pull_reference_call(t, n)
    \/ \E t \in Threads : pull_reference_body(t)
    \/ \E t \in Threads : clear_reference_call(t)
    \/ \E t \in Threads : clear_reference_body(t)
    \/ \E t \in Threads : guard_drop(t)
    \/ \E outcome \in AecNewOutcomes : EchoCanceller_new(outcome)
    \/ \E n \in 0..MaxMicLen : EchoCanceller_process_call(n)
    \/ EchoCanceller_process_chunk
    \/ EchoCanceller_process_return

Spec == Init /\ [][Next]_vars

\* the components of the gain stages
DspComponents == {"gate", "emph", "agc", "norm", "comp", "chain"}

InitDsp ==
    /\ EchoInit
    /\ DspInit
    /\ focus \in DspComponents

NextDsp ==
    \/ \E samples \in LevelFrames(GateSamples, MaxFrameLen) : NoiseGate_process(samples)
    \/ \E samples \in LevelFrames(PreSamples, MaxFrameLen) : PreEmphasis_process(samples)
    \/ \E samples \in LevelFrames(AgcSamples, MaxFrameLen) : AutoGainControl_process(samples)
    \/ \E samples \in LevelFrames(NormSamples, MaxFrameLen) : RmsNormalizer_process(samples)
    \/ \E samples \in LevelFrames(CompSamples, MaxFrameLen) : SpeechCompressor_process(samples)
    \/ \E samples \in LevelFrames(CompSamples, MaxFrameLen) : SystemAudioProcessor_process(samples)

SpecDsp == InitDsp /\ [][NextDsp]_vars

\* a run exercises the reference buffer and the EchoCanceller, or one of
\* the gain stages
InitAll ==
    /\ EchoInit
    /\ DspInit
    /\ focus \in DspComponents \cup {"echo"}

NextAll == Next \/ NextDsp

SpecAll == InitAll /\ [][NextAll]_vars

----------------------------------------------------------------------------
(* Properties *)

\* thread t has run the body of pull_reference and still holds the guard
PullDone(t) == call[t] = "pull_reference" /\ pc[t] = "unlock"

\* ... and the buffer held at least the requested number of samples
FullPull(t) == PullDone(t) /\ Len(pre[t]) >= size[t]

\* ... and the buffer held fewer samples than requested
ShortPull(t) == PullDone(t) /\ Len(pre[t]) < size[t]

\* thread t has run extend and the trim loop of push_reference
PushDone(t) == call[t] = "push_reference" /\ pc[t] = "unlock"

\* thread t has run the body of clear_reference
ClearDone(t) == call[t] = "clear_reference" /\ pc[t] = "unlock"

\* s is the tail end of t
IsSuffix(s, t) == Len(s) <= Len(t) /\ s = LastN(t, Len(s))

\* C1: whenever the lock is not held, the reference buffer holds at most
\* REF_BUFFER_CAPACITY samples, whatever pushes, pulls and clears the two
\* threads have interleaved.
C1_CapacityBound == holder = NoThread => Len(buf) <= REF_BUFFER_CAPACITY

\* the lock is free, the buffer is full, and more samples than the capacity
\* were pushed without any pull or clear: the overflow was trimmed
C1_Witness ==
    /\ holder = NoThread
    /\ Len(buf) = REF_BUFFER_CAPACITY
    /\ Len(pushed) > REF_BUFFER_CAPACITY
    /\ pulled = 0
    /\ cutoff = 0

\* C2: pulls are FIFO.  The buffer always is a run of the pushed stream in
\* push order, holding nothing at or before a sample already returned; a
\* pull that finds at least `size` samples returns exactly the `size` oldest
\* ones, in order, and removes them; so the returned runs, one after the
\* other, are a subsequence of the pushed stream.
FifoState ==
    /\ IsSuffix(buf, pushed)
    /\ \A i \in 1..Len(buf) : Position(pushed, buf[i]) > pulled
    /\ \A t \in Threads : FullPull(t) =>
          /\ ret[t] = SubSeq(pre[t], 1, size[t])
          /\ buf = SubSeq(pre[t], size[t] + 1, Len(pre[t]))
          /\ size[t] > 0 => ret[t] = SubSeq(pushed, pulled - size[t] + 1, pulled)

\* every step that drains samples returns a run of the pushed stream that
\* starts after the last sample any earlier pull returned
FifoStep ==
    pulled' # pulled =>
        \E t \in Threads :
            /\ pc[t] = "body" /\ FullPull(t)'
            /\ Len(ret'[t]) > 0
            /\ ret'[t] = SubSeq(pushed, pulled' - Len(ret'[t]) + 1, pulled')
            /\ pulled' - Len(ret'[t]) >= pulled

C2_Fifo == []FifoState /\ [][FifoStep]_vars

\* a pull of two or more samples that leaves some behind, after earlier
\* samples of the stream were pulled or trimmed away
C2_Witness ==
    /\ FullPull("mic")
    /\ size["mic"] >= 2
    /\ Len(buf) > 0
    /\ ret["mic"][1] > 2

\* C3 as claimed: a pull that finds fewer than `size` samples returns the
\* buffered samples followed by zeros, all zeros only if nothing is buffered.
C3_PrefixThenZeros ==
    \A t \in Threads : ShortPull(t) =>
        /\ ret[t] = pre[t] \o Zeros(size[t] - Len(pre[t]))
        /\ ret[t] = Zeros(size[t]) => pre[t] = << >>

\* C3 amended: a pull that finds fewer than `size` samples returns `size`
\* zeros and none of the buffered samples, which all stay in the buffer; the
\* result is all zeros whether or not anything is buffered.
C3_ZerosNotPrefix ==
    \A t \in Threads : ShortPull(t) =>
        /\ \A i \in 1..size[t] : ret[t][i] = 0
        /\ DOMAIN ret[t] = 1..size[t]
        /\ buf = pre[t]

\* a short pull from a buffer that is not empty
C3_Witness == ShortPull("mic") /\ Len(pre["mic"]) > 0

\* C4: the Vec pull_reference returns always has length `size`, and when
\* fewer than `size` samples are buffered (none included) it is `size` zeros.
C4_ZeroFill ==
    \A t \in Threads : PullDone(t) =>
        /\ Len(ret[t]) = size[t]
        /\ Len(pre[t]) < size[t] => ret[t] = Zeros(size[t])

\* a pull of at least one sample from the empty buffer
C4_Witness == ShortPull("mic") /\ pre["mic"] = << >> /\ size["mic"] > 0

\* C5: after push_reference(frame) on a buffer holding B, the buffer holds
\* the last min(REF_BUFFER_CAPACITY, |B| + |frame|) samples of B followed by
\* frame, in order.
C5_PushKeepsNewest ==
    \A t \in Threads : PushDone(t) =>
        buf = LastN(pre[t] \o frame[t],
                    Min(REF_BUFFER_CAPACITY, Len(pre[t]) + Len(frame[t])))

\* a push that overflows a buffer some of whose samples survive
C5_Witness ==
    /\ PushDone("sys")
    /\ Len(pre["sys"]) > 0
    /\ Len(frame["sys"]) > 0
    /\ Len(frame["sys"]) < REF_BUFFER_CAPACITY
    /\ Len(pre["sys"]) + Len(frame["sys"]) > REF_BUFFER_CAPACITY

\* C6: clear_reference leaves the buffer empty, and from then on neither the
\* buffer nor the result of any pull holds a sample pushed before the clear;
\* a pull with no push since the clear returns only zeros.
C6_ClearDropsStale ==
    /\ \A t \in Threads : ClearDone(t) => Len(buf) = 0
    /\ \A i \in 1..Len(buf) : Position(pushed, buf[i]) > cutoff
    /\ \A t \in Threads : PullDone(t) =>
          /\ \A i \in 1..Len(ret[t]) :
                ret[t][i] # 0 => Position(pushed, ret[t][i]) > cutoff
          /\ Len(pushed) = cutoff => ret[t] = Zeros(size[t])

\* the system-audio thread pushed and then cleared, and the microphone
\* thread then pulls: it gets zeros
C6_Witness ==
    /\ call["sys"] = "clear_reference"
    /\ pc["sys"] = "idle"
    /\ cutoff > 0
    /\ Len(pushed) = cutoff
    /\ PullDone("mic")
    /\ size["mic"] > 0

\* C7 as claimed: no thread ever waits for the buffer lock; a call that finds
\* the lock held by the other thread returns at once.
C7_NeverWaitsForLock == \A t \in Threads : pc[t] # "blocked"

\* C8: the output of EchoCanceller::process is as long as the microphone
\* frame, for every frame length and whatever the reference buffer held.
C8_OutputLength == proc = "returned" => Len(output) = Len(mic_frame)

\* a frame of more than one sub-frame, not a multiple of the sub-frame
\* size, processed against reference samples that were really buffered
C8_Witness ==
    /\ proc = "returned"
    /\ Len(mic_frame) > AEC_FRAME_SIZE
    /\ Len(mic_frame) % AEC_FRAME_SIZE # 0
    /\ ref_samples # Zeros(Len(mic_frame))

\* the samples of the trailing partial sub-frame of the microphone frame
PartialTail(m, fs) == SubSeq(m, Len(m) - (Len(m) % fs) + 1, Len(m))

\* C9: a trailing partial sub-frame of the microphone frame is in the output
\* at the same position with the microphone's values, the output ends with
\* it, and none of its samples was given to the engine, which only ever got
\* full sub-frames.
C9_PartialTailPassedThrough ==
    (proc = "returned" /\ Len(mic_frame) % ec.frame_size # 0) =>
        LET n == Len(mic_frame)
            first == n - (n % ec.frame_size) + 1
            tail == PartialTail(mic_frame, ec.frame_size)
        IN  /\ Len(output) = n
            /\ \A i \in first..n : output[i] = mic_frame[i]
            /\ Len(aec_calls) = n \div ec.frame_size
            /\ \A k \in 1..Len(aec_calls) :
                  /\ Len(aec_calls[k][1]) = ec.frame_size
                  /\ \A i \in 1..Len(aec_calls[k][1]) :
                        \A j \in 1..Len(tail) : aec_calls[k][1][i] # tail[j]

\* a frame with full sub-frames, which went to the engine, and a partial one
C9_Witness ==
    /\ proc = "returned"
    /\ Len(mic_frame) % AEC_FRAME_SIZE # 0
    /\ Len(aec_calls) > 0

\* C10: a panic inside the engine's initialization gives None; a successful
\* one gives an EchoCanceller with sub-frame size AEC_FRAME_SIZE, filter
\* length AEC_FILTER_LENGTH and rate AEC_SAMPLE_RATE, in every later state.
C10_FallibleConstruction ==
    /\ aec_init = "not_called" => ec.tag = "NotConstructed"
    /\ aec_init = "panic" => ec = [tag |-> "None"]
    /\ aec_init = "ok" =>
          /\ ec.tag = "Some"
          /\ ec.frame_size = AEC_FRAME_SIZE
          /\ ec.aec.frame_size = AEC_FRAME_SIZE
          /\ ec.aec.filter_length = AEC_FILTER_LENGTH
          /\ ec.aec.sample_rate = AEC_SAMPLE_RATE

\* the initialization panicked, and the microphone thread carries on with
\* the reference buffer
C10_Witness == aec_init = "panic" /\ ec.tag = "None" /\ pc["mic"] = "unlock"

----------------------------------------------------------------------------
(* Properties of the NoiseGate *)

\* the samples of the latest NoiseGate::process call, as positions in the
\* history
GateSteps == 1..Len(gate_trace)

\* C11 as stated: once the sliding RMS has stayed under the close
\* threshold, starting from Open, for more than GATE_HOLD_SAMPLES +
\* GATE_RELEASE_SAMPLES samples, the gate has reached Closed.
C11_ClosedAfterHoldPlusRelease ==
    \A i \in GateSteps :
        gate_trace[i].run > GATE_HOLD_SAMPLES + GATE_RELEASE_SAMPLES
            => gate_trace[i].post.state = "Closed"

\* C11, amended: once the sliding RMS has stayed under the close threshold,
\* starting from Open, for GATE_HOLD_SAMPLES + GATE_RELEASE_SAMPLES + 3
\* samples, the gate is Closed and writes zero; and every sample a Closed
\* gate meets with the RMS under the open threshold leaves it Closed and is
\* written as exactly zero.
C11_ClosedAfterQuietRun ==
    \A i \in GateSteps :
        LET e == gate_trace[i]
        IN  /\ e.run >= GATE_HOLD_SAMPLES + GATE_RELEASE_SAMPLES + 3
                => e.post.state = "Closed" /\ e.y = 0
            /\ e.pre.state = "Closed" /\ rms_below(e.post.rms_sum, GATE_OPEN_THRESH)
                => e.post.state = "Closed" /\ e.y = 0

\* a non-zero sample late in a quiet run meets the Closed gate and is zeroed
C11_Witness ==
    \E i \in GateSteps :
        LET e == gate_trace[i]
        IN  /\ e.run >= GATE_HOLD_SAMPLES + GATE_RELEASE_SAMPLES + 3
            /\ e.pre.state = "Closed"
            /\ e.x # 0
            /\ e.y = 0

\* C12: a sample met in Hold or in Release whose sliding RMS is at or
\* above the open threshold leaves the gate Open, on that very sample,
\* whatever is left on the counters.
C12_ReopensAtOnce ==
    \A i \in GateSteps :
        LET e == gate_trace[i]
        IN  /\ e.pre.state \in {"Hold", "Release"}
            /\ rms_at_least(e.post.rms_sum, GATE_OPEN_THRESH)
            => e.post.state = "Open"

\* the gate re-opens from Hold with the hold counter still running
C12_Witness ==
    \E i \in GateSteps :
        LET e == gate_trace[i]
        IN  /\ e.pre.state = "Hold"
            /\ e.pre.hold_counter > 0
            /\ rms_at_least(e.post.rms_sum, GATE_OPEN_THRESH)
            /\ e.post.state = "Open"

\* the state changes of the gate
GateChanges ==
    {<<"Open", "Hold">>, <<"Hold", "Open">>, <<"Hold", "Release">>,
     <<"Release", "Open">>, <<"Release", "Closed">>, <<"Closed", "Open">>}

\* C20: a new gate is Open, and a sample either leaves the state of the
\* gate alone or makes one of the six changes Open->Hold, Hold->Open,
\* Hold->Release, Release->Open, Release->Closed, Closed->Open.
C20_GateChanges ==
    /\ dsp_calls = 0 => gate.state = "Open"
    /\ \A i \in GateSteps :
           LET e == gate_trace[i]
           IN  /\ e.pre.state # e.post.state
                   => <<e.pre.state, e.post.state>> \in GateChanges
               /\ i > 1 => e.pre = gate_trace[i - 1].post

\* the fade runs out and the gate goes from Release to Closed
C20_Witness ==
    \E i \in GateSteps :
        gate_trace[i].pre.state = "Release" /\ gate_trace[i].post.state = "Closed"

----------------------------------------------------------------------------
(* Properties of PreEmphasis *)

\* the sample before the n-th of the stream; 0 before the first
StreamBefore(n) == IF n = 1 THEN 0 ELSE stream_in[n - 1]

\* C17: over the whole stream handed to one PreEmphasis, however it is cut
\* into frames, output[n] = input[n] - 0.65 * input[n-1] with input[-1] = 0;
\* so a constant input V gives V first and V * (1 - 0.65) from then on.
C17_FirstDifference ==
    focus = "emph" =>
        /\ Len(stream_out) = Len(stream_in)
        /\ \A n \in 1..Len(stream_in) :
               /\ 100 * stream_out[n] = 100 * stream_in[n] - 65 * StreamBefore(n)
               /\ n > 1 /\ stream_in[n] = stream_in[n - 1]
                      => 100 * stream_out[n] = (100 - 65) * stream_in[n]
        /\ emph.prev_sample = StreamBefore(Len(stream_in) + 1)

\* a frame starts right after a non-zero sample of the frame before it, and
\* a constant input runs on from one frame into the next
C17_Witness ==
    /\ focus = "emph"
    /\ dsp_calls = 3
    /\ Len(dsp_in) = 1
    /\ Len(stream_in) >= 4
    /\ \E n \in 2..Len(stream_in) - 1 :
           /\ stream_in[n] # 0
           /\ stream_in[n - 1] # stream_in[n]
           /\ stream_in[n - 1] # 0
    /\ stream_in[Len(stream_in)] = stream_in[Len(stream_in) - 1]
    /\ stream_in[Len(stream_in)] # 0

----------------------------------------------------------------------------
(* Properties of the gain stages *)

\* C13 as stated: every output sample of SystemAudioProcessor::process and
\* of AutoGainControl::process lies within [-1, 1], whatever finite samples
\* the frame and the frames before it held.
C13_OutputWithinUnit ==
    focus \in {"chain", "agc"} =>
        \A k \in 1..Len(dsp_out) :
            /\ dsp_out[k] # NaN
            /\ 0 - One <= dsp_out[k]
            /\ dsp_out[k] <= One

\* a process call of a gain stage on a zero-length frame
DspEmptyCall == dsp_calls' = dsp_calls + 1 /\ dsp_in' = << >>

\* a step the microphone thread takes inside EchoCanceller::process of a
\* zero-length frame
EchoEmptyStep ==
    /\ proc \in {"pull", "loop"}
    /\ mic_frame = << >>
    /\ pc'["mic"] # pc["mic"] \/ proc' # proc

\* C14: processing a zero-length frame leaves the state of every component
\* as it was (gain, envelope, RMS window, index and sum, gate state and
\* counters, previous sample, reference buffer) and returns an empty frame.
C14_EmptyFrameNoOp ==
    /\ [][/\ DspEmptyCall => /\ UNCHANGED <<agc, comp, norm, gate, emph>>
                             /\ dsp_out' = << >>
          /\ EchoEmptyStep => buf' = buf /\ ec' = ec]_vars
    /\ [](proc = "returned" /\ mic_frame = << >> => output = << >>)

\* an AutoGainControl whose gain is on its way up is handed an empty frame
C14_Witness ==
    /\ focus = "agc"
    /\ dsp_calls = 3
    /\ dsp_in = << >>
    /\ agc.peak_envelope > SILENCE_FLOOR
    /\ agc.current_gain < agc_clamp_gain(agc_target_over(agc.peak_envelope))

\* the normalizer as each sample of the latest call left it
NormSteps == 1..Len(norm_trace)

\* C15: AutoGainControl.current_gain is always within [1.0, 60.0] and
\* starts at 60.0; RmsNormalizer.current_gain is always within [0.5, 40.0]
\* and starts at 1.0.
C15_GainRanges ==
    /\ agc.current_gain >= MIN_GAIN
    /\ agc.current_gain <= MAX_GAIN
    /\ dsp_calls = 0 => agc.current_gain = 60 * GainOne
    /\ norm.current_gain >= NORM_MIN_GAIN
    /\ norm.current_gain <= NORM_MAX_GAIN
    /\ \A i \in NormSteps :
           /\ norm_trace[i].post.current_gain >= GainOne \div 2
           /\ norm_trace[i].post.current_gain <= 40 * GainOne
    /\ dsp_calls = 0 => norm.current_gain = GainOne

\* a loud frame has driven the target gain of the AGC under 1.0 and the
\* gain rests on its lower limit
C15_Witness ==
    /\ focus = "agc"
    /\ agc.peak_envelope # Huge
    /\ agc.peak_envelope > TARGET_PEAK
    /\ agc.current_gain = GainOne

RECURSIVE f32_sum_from(_, _)
f32_sum_from(s, k) ==
    IF k > Len(s) THEN 0 ELSE f32_add(s[k], f32_sum_from(s, k + 1))

\* the sum of the window s from entry k on, added up exactly
RECURSIVE exact_sum_from(_, _)
exact_sum_from(s, k) ==
    IF k > Len(s) THEN 0 ELSE s[k] + exact_sum_from(s, k + 1)

\* the sums that count as the sum of the contents of the window: the f32
\* sum and, when every entry is finite, the exact sum
WindowSums(s) ==
    {f32_sum_from(s, 1)} \cup
    (IF \A k \in 1..Len(s) : s[k] # NaN /\ s[k] # Inf THEN {exact_sum_from(s, 1)} ELSE {})

\* the entry of the window c holds the square of the sample fed j samples
\* ago (j = 1 is the latest)
WindowHolds(c, j) ==
    c.rms_buffer[((c.rms_index + RMS_WINDOW - j) % RMS_WINDOW) + 1]
        = f32_square(c.seen[Len(c.seen) - j + 1])

\* the window c after a sample: the running sum is the sum of the contents,
\* the contents are the squares of the last min(n, RMS_WINDOW) samples and
\* zeros elsewhere, and the index is within [0, RMS_WINDOW)
WindowExact(c) ==
    /\ c.rms_sum \in WindowSums(c.rms_buffer)
    /\ \A j \in 1..RMS_WINDOW :
           IF j <= Len(c.seen) THEN WindowHolds(c, j)
           ELSE c.rms_buffer[((c.rms_index + RMS_WINDOW - j) % RMS_WINDOW) + 1] = 0
    /\ c.rms_index \in 0..(RMS_WINDOW - 1)

\* C18 as stated: after every sample the window of the compressor, of the
\* normalizer and of the gate is exact.
C18_WindowExact ==
    /\ \A i \in 1..Len(comp_trace) : WindowExact(comp_trace[i].post)
    /\ \A i \in NormSteps : WindowExact(norm_trace[i].post)
    /\ \A i \in GateSteps : WindowExact(gate_trace[i].post)

----------------------------------------------------------------------------
(* Hysteresis, output and closing latency of the NoiseGate *)

\* the sliding RMS is a number in [GATE_CLOSE_THRESH, GATE_OPEN_THRESH)
rms_between_thresholds(sum) ==
    /\ ~rms_is_nan(sum)
    /\ ~rms_below(sum, GATE_CLOSE_THRESH)
    /\ ~rms_at_least(sum, GATE_OPEN_THRESH)

\* C21: the open threshold is above the close threshold; a sample takes
\* the gate out of Open only when its sliding RMS is under the close
\* threshold and out of Closed only when its RMS is at or above the open
\* threshold; so a sample whose RMS lies in [close, open) leaves an Open
\* gate Open and a Closed gate Closed.
C21_Hysteresis ==
    /\ GATE_OPEN_THRESH > GATE_CLOSE_THRESH
    /\ \A i \in GateSteps :
           LET e == gate_trace[i]
           IN  /\ e.pre.state = "Open" /\ e.post.state # "Open"
                   => rms_below(e.post.rms_sum, GATE_CLOSE_THRESH)
               /\ e.pre.state = "Closed" /\ e.post.state # "Closed"
                   => rms_at_least(e.post.rms_sum, GATE_OPEN_THRESH)
               /\ e.pre.state \in {"Open", "Closed"}
                  /\ rms_between_thresholds(e.post.rms_sum)
                   => e.post.state = e.pre.state

\* a Closed gate meets a sample whose RMS lies between the thresholds and
\* stays Closed
C21_Witness ==
    \E i \in GateSteps :
        LET e == gate_trace[i]
        IN  /\ e.pre.state = "Closed"
            /\ rms_between_thresholds(e.post.rms_sum)
            /\ e.post.state = "Closed"

\* y is x scaled by release_counter / GATE_RELEASE_SAMPLES, to within one
\* step of the sample grid; a NaN stays a NaN
FadedBy(x, y, release_counter) ==
    IF x = NaN \/ y = NaN THEN x = NaN /\ y = NaN
    ELSE Abs(y * GATE_RELEASE_SAMPLES - x * release_counter) < GATE_RELEASE_SAMPLES

\* what C22 says of Open, Hold and Closed, and of the counter of Release:
\* a sample met in Open or Hold is written back unchanged; a sample met in
\* Closed is written as zero unless it re-opens the gate, and then
\* unchanged; the fade starts from release_counter = GATE_RELEASE_SAMPLES
\* and the counter goes down by one per faded sample
GateOutputOutsideRelease(e) ==
    /\ e.pre.state \in {"Open", "Hold"} => e.y = e.x
    /\ e.pre.state = "Closed"
        => e.y = (IF e.post.state = "Open" THEN e.x ELSE 0)
    /\ e.pre.state = "Hold" /\ e.post.state = "Release"
        => e.post.release_counter = GATE_RELEASE_SAMPLES
    /\ e.pre.state = "Release" /\ e.post.state = "Release"
        => e.post.release_counter = e.pre.release_counter - 1

\* a sample met in Release that does not re-open the gate: zero when the
\* gate enters Closed, else scaled by release_counter /
\* GATE_RELEASE_SAMPLES, a factor in (0, 1]
GateOutputFaded(e) ==
    IF e.post.state = "Closed" THEN e.y = 0
    ELSE /\ e.pre.release_counter \in 1..GATE_RELEASE_SAMPLES
         /\ FadedBy(e.x, e.y, e.pre.release_counter)

\* C22 as stated: every sample met in Release is either scaled by
\* release_counter / GATE_RELEASE_SAMPLES or zeroed on entering Closed
\* (with the outputs of Open, Hold and Closed as above).
C22_OutputPerState ==
    \A i \in GateSteps :
        LET e == gate_trace[i]
        IN  /\ GateOutputOutsideRelease(e)
            /\ e.pre.state = "Release" => GateOutputFaded(e)

\* C22, amended: a sample met in Open or Hold is written back unchanged; a
\* sample met in Closed is written as zero unless it re-opens the gate,
\* and then unchanged; a sample met in Release that re-opens the gate is
\* written back unchanged, one that enters Closed is written as zero, and
\* any other is scaled by release_counter / GATE_RELEASE_SAMPLES, a factor
\* in (0, 1] that starts at 1 and goes down by 1 / GATE_RELEASE_SAMPLES
\* per sample.
C22_OutputPerStateReopening ==
    \A i \in GateSteps :
        LET e == gate_trace[i]
        IN  /\ GateOutputOutsideRelease(e)
            /\ e.pre.state = "Release"
                => IF e.post.state = "Open" THEN e.y = e.x
                   ELSE GateOutputFaded(e)

\* a loud sample re-opens the gate part-way through the fade and is not
\* faded
C22_Witness ==
    \E i \in GateSteps :
        LET e == gate_trace[i]
        IN  /\ e.pre.state = "Release"
            /\ e.pre.release_counter \in 1..(GATE_RELEASE_SAMPLES - 1)
            /\ e.post.state = "Open"
            /\ e.x # 0
            /\ e.y = e.x

\* where the k-th sample of a run of quiet samples that began in Open
\* leaves the gate: state and the counter of that state
ClosingSchedule(k) ==
    IF k <= GATE_HOLD_SAMPLES + 1
    THEN [state |-> "Hold", counter |-> GATE_HOLD_SAMPLES - (k - 1)]
    ELSE IF k <= GATE_HOLD_SAMPLES + GATE_RELEASE_SAMPLES + 2
    THEN [state |-> "Release",
          counter |-> GATE_RELEASE_SAMPLES - (k - GATE_HOLD_SAMPLES - 2)]
    ELSE [state |-> "Closed", counter |-> 0]

\* C28: in a run of samples that begins in Open and keeps the sliding RMS
\* under the close threshold, the k-th sample leaves the gate in Hold for
\* k = 1 .. GATE_HOLD_SAMPLES + 1 (the counter going from
\* GATE_HOLD_SAMPLES down to 0), in Release for the next
\* GATE_RELEASE_SAMPLES + 1 samples (the counter going from
\* GATE_RELEASE_SAMPLES down to 0) and in Closed from sample
\* GATE_HOLD_SAMPLES + GATE_RELEASE_SAMPLES + 3 on, never earlier; the
\* two counters stay within 0 .. GATE_HOLD_SAMPLES and
\* 0 .. GATE_RELEASE_SAMPLES.
C28_ClosingLatency ==
    /\ gate.hold_counter \in 0..GATE_HOLD_SAMPLES
    /\ gate.release_counter \in 0..GATE_RELEASE_SAMPLES
    /\ \A i \in GateSteps :
           LET e == gate_trace[i]
               at == ClosingSchedule(e.run)
           IN  /\ e.post.hold_counter \in 0..GATE_HOLD_SAMPLES
               /\ e.post.release_counter \in 0..GATE_RELEASE_SAMPLES
               /\ e.run > 0
                   => /\ e.post.state = at.state
                      /\ at.state = "Hold" => e.post.hold_counter = at.counter
                      /\ at.state = "Release" => e.post.release_counter = at.counter

\* the sample GATE_HOLD_SAMPLES + GATE_RELEASE_SAMPLES + 3 of a quiet run
\* takes the gate from Release to Closed
C28_Witness ==
    \E i \in GateSteps :
        LET e == gate_trace[i]
        IN  /\ e.run = GATE_HOLD_SAMPLES + GATE_RELEASE_SAMPLES + 3
            /\ e.pre.state = "Release"
            /\ e.pre.release_counter = 0
            /\ e.post.state = "Closed"

----------------------------------------------------------------------------
(* Attack and release of the AutoGainControl *)

\* clamp(TARGET_PEAK / envelope, MIN_GAIN, MAX_GAIN) for the envelope a
\* frame has left
agc_desired(env) == agc_clamp_gain(agc_target_over(env))

\* a call of AutoGainControl::process on a frame that is not empty
AgcFrameStep ==
    /\ focus = "agc"
    /\ dsp_calls' = dsp_calls + 1
    /\ dsp_in' # << >>

\* C23: a frame that leaves the peak envelope above the silence floor,
\* with d = clamp(0.25 / envelope, 1, 60): when d is under the gain the
\* frame found, the gain is d after the frame and the samples of that
\* same frame are scaled by d; otherwise the gain goes up by 0.02 of its
\* distance to d (to within one step of the gain grid), so it neither
\* passes d nor goes down.
C23_AttackRelease ==
    [][AgcFrameStep /\ agc'.peak_envelope > SILENCE_FLOOR
        => LET d == agc_desired(agc'.peak_envelope)
               g == agc.current_gain
               h == agc'.current_gain
           IN  IF d < g
               THEN h = d /\ dsp_out' = agc_apply(dsp_in', d)
               ELSE /\ g <= h
                    /\ h <= d
                    /\ Abs(100 * (h - g) - 2 * (d - g)) < 100]_vars

\* a frame whose own peak set the envelope has pulled the gain down from
\* the ceiling to its target, and a sample of the frame came out scaled by
\* that gain without clipping
C23_Witness ==
    /\ focus = "agc"
    /\ dsp_in # << >>
    /\ agc.peak_envelope > SILENCE_FLOOR
    /\ agc.current_gain = agc_desired(agc.peak_envelope)
    /\ agc.current_gain < MAX_GAIN
    /\ agc.current_gain > MIN_GAIN
    /\ \E k \in 1..Len(dsp_in) :
           /\ agc_abs(dsp_in[k]) = agc.peak_envelope
           /\ dsp_out[k] = f32_times_gain(dsp_in[k], agc.current_gain)
           /\ Abs(dsp_out[k]) < One

----------------------------------------------------------------------------
(* The calls EchoCanceller::process makes *)

\* the k-th sub-frame of fs samples of s
SubFrame(s, fs, k) == SubSeq(s, (k - 1) * fs + 1, k * fs)

\* the outputs of the first k engine calls, one after the other
RECURSIVE EngineOutputs(_, _)
EngineOutputs(calls, k) ==
    IF k = 0 THEN << >> ELSE EngineOutputs(calls, k - 1) \o calls[k][3]

\* the engine calls made so far are the leading sub-frame pairs, in order
EngineCallsInOrder ==
    \A k \in 1..Len(aec_calls) :
        /\ aec_calls[k][1] = SubFrame(mic_frame, ec.frame_size, k)
        /\ aec_calls[k][2] = SubFrame(ref_samples, ec.frame_size, k)

\* what holds inside and at the end of a call of process
ProcessCalls ==
    /\ proc = "pull"
        => /\ call["mic"] = "pull_reference"
           /\ pc["mic"] # "idle"
           /\ size["mic"] = Len(mic_frame)
           /\ aec_calls = << >>
    /\ proc = "loop"
        => /\ pc["mic"] = "idle"
           /\ Len(ref_samples) = Len(mic_frame)
           /\ Len(aec_calls) = Min(chunk, Len(mic_frame) \div ec.frame_size)
           /\ EngineCallsInOrder
    /\ proc = "returned"
        => /\ Len(ref_samples) = Len(mic_frame)
           /\ Len(aec_calls) = Len(mic_frame) \div ec.frame_size
           /\ EngineCallsInOrder
           /\ output = EngineOutputs(aec_calls, Len(aec_calls))
                           \o PartialTail(mic_frame, ec.frame_size)

\* the one pull of a call of process: its body runs once, and what it
\* returned becomes the reference of the call
ProcessPullStep ==
    /\ proc = "pull" /\ pc["mic"] = "unlock" /\ pc'["mic"] # "unlock"
        => proc' = "loop" /\ ref_samples' = ret["mic"]
    /\ proc = "pull" /\ proc' # "pull"
        => pc["mic"] = "unlock" /\ proc' = "loop"
    /\ proc = "loop"
        => /\ pc'["mic"] = "idle"
           /\ ref_samples' = ref_samples
           /\ mic_frame' = mic_frame

\* C24: a call of EchoCanceller::process pulls the reference once, for as
\* many samples as the microphone frame holds; it then calls the engine
\* floor(len / frame_size) times, the k-th call with the k-th sub-frame of
\* the microphone frame and the k-th sub-frame of the pulled reference;
\* and it returns the outputs of those calls in order, followed by the
\* partial tail of the microphone frame.
C24_OnePullThenSubFrames == []ProcessCalls /\ [][ProcessPullStep]_vars

\* two engine calls against a reference that was really buffered, with
\* engine outputs that differ from call to call
C24_Witness ==
    /\ proc = "returned"
    /\ Len(aec_calls) = 2
    /\ aec_calls[1][3] # aec_calls[2][3]
    /\ \A i \in 1..Len(ref_samples) : ref_samples[i] # 0

----------------------------------------------------------------------------
(* Atomicity of the reference buffer operations *)

\* thread t is between taking the lock and dropping the guard
InCriticalSection(t) == pc[t] \in {"body", "trim", "unlock"}

\* what the call of thread t leaves in the buffer when it runs alone on
\* the buffer b
SequentialBuffer(t, b) ==
    CASE call[t] = "push_reference" ->
             LET all == b \o frame[t]
             IN  LastN(all, Min(Len(all), REF_BUFFER_CAPACITY))
      [] call[t] = "pull_reference" ->
             IF Len(b) >= size[t] THEN SubSeq(b, size[t] + 1, Len(b)) ELSE b
      [] call[t] = "clear_reference" -> << >>

\* one thread at most is inside a critical section, and it is the holder
\* of the lock; the buffer it found was no push half done; and when its
\* work is done the buffer, and for a pull the returned Vec, are what the
\* call gives when run alone on the buffer it found
AtomicState ==
    /\ \A t \in Threads : InCriticalSection(t) <=> holder = t
    /\ \A t \in Threads : InCriticalSection(t) =>
           Len(pre[t]) <= REF_BUFFER_CAPACITY
    /\ \A t \in Threads : pc[t] = "unlock" =>
           /\ buf = SequentialBuffer(t, pre[t])
           /\ call[t] = "pull_reference" =>
                  ret[t] = (IF Len(pre[t]) >= size[t]
                            THEN SubSeq(pre[t], 1, size[t])
                            ELSE Zeros(size[t]))

\* the lock is taken when no thread is inside a critical section, and the
\* buffer found is the buffer of that instant; the buffer changes only in
\* a step of the thread that holds the lock; and the samples a pull
\* returns all come after every sample an earlier pull returned
AtomicStep ==
    /\ \A t \in Threads :
           holder' = t /\ holder # t
           => /\ holder = NoThread
              /\ \A u \in Threads : ~InCriticalSection(u)
              /\ pre'[t] = buf
              /\ buf' = buf
    /\ buf' # buf
        => /\ holder # NoThread
           /\ holder' = holder
           /\ \A t \in Threads \ {holder} : pc'[t] = pc[t] /\ ret'[t] = ret[t]
    /\ \A t \in Threads :
           (pc[t] = "body" /\ pc'[t] = "unlock" /\ call[t] = "pull_reference"
            /\ Len(buf) >= size[t])
           => \A i \in 1..Len(ret'[t]) : Position(pushed, ret'[t][i]) > pulled

\* C25: under every interleaving of the two threads the operations on the
\* reference buffer are atomic: one thread at a time is between lock and
\* unlock and only it changes the buffer; no sample is returned by two
\* pulls; a pull returns the leading run of the buffer as it stood when the
\* lock was taken, never a buffer with a push half done; and every call
\* leaves what it would leave run alone on the buffer it found, so the
\* outcome is that of the calls run one after the other in the order they
\* took the lock.
C25_AtomicUnderLock == []AtomicState /\ [][AtomicStep]_vars

\* the microphone thread asked for a pull while the push of the other
\* thread had extended the buffer past its capacity and not yet trimmed
\* it: the pull waits
C25_Witness ==
    /\ call["sys"] = "push_reference"
    /\ pc["sys"] = "trim"
    /\ Len(buf) > REF_BUFFER_CAPACITY
    /\ call["mic"] = "pull_reference"
    /\ pc["mic"] = "blocked"
    /\ size["mic"] > 0

----------------------------------------------------------------------------
(* The gain of the SpeechCompressor *)

\* the samples of the latest SpeechCompressor::process call, as positions
\* in the history
CompSteps == 1..Len(comp_trace)

\* a gain that is a number in (0, 1]
GainInUnit(g) == g # NaN /\ 0 < g /\ g <= GainOne

\* gain_smooth went from g to h, toward the target d, by the fraction
\* num / den of the distance (to within one step of the gain grid),
\* without passing d
MovedToward(g, h, d, num, den) ==
    /\ (IF d < g THEN d <= h /\ h <= g ELSE g <= h /\ h <= d)
    /\ Abs(den * (h - g) - num * (d - g)) < den

\* C26: the compressor never amplifies.  The target gain of every sample is
\* in (0, 1], and is 1 when the level is under threshold - knee/2; the
\* smoothed gain starts at 1 and is in (0, 1] after every sample; and a
\* sample moves it toward the target by 0.02 of the distance when the
\* target is under the smoothed gain and by 0.00042 of it otherwise, never
\* past the target.
C26_NeverAmplifies ==
    /\ dsp_calls = 0 => comp.gain_smooth = GainOne
    /\ \A i \in CompSteps :
           LET e == comp_trace[i]
               input_db == comp_input_db(e.post.rms_sum)
               d == comp_desired_gain(compute_gain_db(input_db))
               g == e.pre.gain_smooth
               h == e.post.gain_smooth
           IN  /\ GainInUnit(d)
               /\ input_db < threshold_db - half_knee => d = GainOne
               /\ GainInUnit(h)
               /\ IF d < g THEN MovedToward(g, h, d, 2, 100)
                  ELSE MovedToward(g, h, d, 42, 10^5)

----------------------------------------------------------------------------
(* What a short pull leaves behind *)

\* thread t runs the body of pull_reference in this step
PullBodyStep(t) ==
    /\ call[t] = "pull_reference"
    /\ pc[t] = "body"
    /\ pc'[t] = "unlock"

\* after the body of a pull: a short pull has left the buffer as it found
\* it, and a full pull has returned the head of the buffer it found and
\* left the rest, so a sample stays buffered until a pull returns it
PullKeepsOrReturns ==
    \A t \in Threads :
        /\ ShortPull(t) => buf = pre[t] /\ Len(buf) = Len(pre[t])
        /\ FullPull(t) => ret[t] \o buf = pre[t] /\ Len(ret[t]) = size[t]

\* the body of a pull that finds too few samples changes neither the
\* buffer nor how far the stream has been drained; and the pull of a call
\* of EchoCanceller::process takes Len(mic_frame) samples from the buffer
\* when it holds that many and none otherwise
ShortPullStep ==
    \A t \in Threads :
        PullBodyStep(t) =>
            /\ Len(buf) < size[t] => buf' = buf /\ pulled' = pulled
            /\ t = "mic" /\ proc = "pull"
                => /\ size[t] = Len(mic_frame)
                   /\ Len(buf) - Len(buf') =
                          (IF Len(buf) >= Len(mic_frame) THEN Len(mic_frame) ELSE 0)

====
